---------------------------- MODULE Spec2Model ----------------------------
(***************************************************************************)
(* A model of mojilog: the decoration resolver (emoji by level and by      *)
(* message content), the attribute denylist, the three renderers           *)
(* (PrettyHandler, PrettyJSONHandler, EmojiHandler over the standard JSON  *)
(* handler) and the process-wide logger (InitGlobal, Get, With, the free   *)
(* functions Debug/Info/Warn/Error).                                       *)
(*                                                                         *)
(* Strings that the code inspects byte by byte (log messages, the patterns *)
(* of getContextualEmoji, the emoji) are sequences of Unicode code points. *)
(* Attribute keys, which the code only compares for equality, are TLA+     *)
(* strings.                                                                *)
(*                                                                         *)
(* Specifications:                                                         *)
(*   SpecGlobal  InitGlobal and Get called concurrently, step by step      *)
(*   SpecHandle  Handle called concurrently on shared handlers             *)
(*   SpecLevels  thresholds: every format and level, calls at every level  *)
(*   SpecAttrs   attributes given to With and at the call                  *)
(*   SpecChain   handler chains built with the public constructors         *)
(*   SpecEmoji   the decoration resolver on bounded messages and levels    *)
(***************************************************************************)
EXTENDS Integers, Sequences, FiniteSets, TLC

\* ------------------------------------------------------------------------
\* slog levels (log/slog: Debug -4, Info 0, Warn 4, Error 8)
\* ------------------------------------------------------------------------
LevelDebug == -4
LevelInfo == 0
LevelWarn == 4
LevelError == 8
\* a level below debug (the "trace" tier of formatLevel / getEmojiForLevel)
LevelTrace == -8

\* slog.HandlerOptions.Level is a Leveler that may be nil: <<>> models nil,
\* <<l>> a set level.

\* ------------------------------------------------------------------------
\* String literals of getContextualEmoji, as code points
\* ------------------------------------------------------------------------

Pat ==
    [ health |-> <<104, 101, 97, 108, 116, 104>>,   \* "health"
      excellent |-> <<101, 120, 99, 101, 108, 108, 101, 110, 116>>,   \* "excellent"
      good |-> <<103, 111, 111, 100>>,   \* "good"
      degraded |-> <<100, 101, 103, 114, 97, 100, 101, 100>>,   \* "degraded"
      critical |-> <<99, 114, 105, 116, 105, 99, 97, 108>>,   \* "critical"
      shutdown |-> <<115, 104, 117, 116, 100, 111, 119, 110>>,   \* "shutdown"
      stopping |-> <<115, 116, 111, 112, 112, 105, 110, 103>>,   \* "stopping"
      start |-> <<115, 116, 97, 114, 116>>,   \* "start"
      parser_is_running |-> <<112, 97, 114, 115, 101, 114, 32, 105, 115, 32, 114, 117, 110, 110, 105, 110, 103>>,   \* "parser is running"
      success |-> <<115, 117, 99, 99, 101, 115, 115>>,   \* "success"
      cleanup |-> <<99, 108, 101, 97, 110, 117, 112>>,   \* "cleanup"
      config |-> <<99, 111, 110, 102, 105, 103>>,   \* "config"
      setting |-> <<115, 101, 116, 116, 105, 110, 103>>,   \* "setting"
      connect |-> <<99, 111, 110, 110, 101, 99, 116>>,   \* "connect"
      websocket |-> <<119, 101, 98, 115, 111, 99, 107, 101, 116>>,   \* "websocket"
      failed |-> <<102, 97, 105, 108, 101, 100>>,   \* "failed"
      table |-> <<116, 97, 98, 108, 101>>,   \* "table"
      game |-> <<103, 97, 109, 101>>,   \* "game"
      casino |-> <<99, 97, 115, 105, 110, 111>>,   \* "casino"
      statistics |-> <<115, 116, 97, 116, 105, 115, 116, 105, 99, 115>>,   \* "statistics"
      metrics |-> <<109, 101, 116, 114, 105, 99, 115>>,   \* "metrics"
      loading |-> <<108, 111, 97, 100, 105, 110, 103>>,   \* "loading"
      processing |-> <<112, 114, 111, 99, 101, 115, 115, 105, 110, 103>>,   \* "processing"
      creating |-> <<99, 114, 101, 97, 116, 105, 110, 103>> ]   \* "creating"

\* The emoji literals of getContextualEmoji and getEmojiForLevel, as code points
Emo ==
    [ GreenHeart |-> <<128154>>,   \* U+1F49A
      YellowCircle |-> <<128993>>,   \* U+1F7E1
      OrangeCircle |-> <<128992>>,   \* U+1F7E0
      RedCircle |-> <<128308>>,   \* U+1F534
      Stop |-> <<128721>>,   \* U+1F6D1
      Rocket |-> <<128640>>,   \* U+1F680
      Party |-> <<127881>>,   \* U+1F389
      Broom |-> <<129529>>,   \* U+1F9F9
      Gear |-> <<9881, 65039>>,   \* U+2699 U+FE0F
      Plug |-> <<128268>>,   \* U+1F50C
      Cross |-> <<10060>>,   \* U+274C
      Slot |-> <<127920>>,   \* U+1F3B0
      Chart |-> <<128202>>,   \* U+1F4CA
      Hourglass |-> <<9203>>,   \* U+23F3
      New |-> <<127381>>,   \* U+1F195
      Warning |-> <<9888, 65039>>,   \* U+26A0 U+FE0F
      Info |-> <<8505, 65039>>,   \* U+2139 U+FE0F
      Magnifier |-> <<128269>>,   \* U+1F50D
      Memo |-> <<128221>> ]   \* U+1F4DD

\* ------------------------------------------------------------------------
\* Decoration resolver
\* ------------------------------------------------------------------------

\* one byte of toLower: 'A' <= c <= 'Z' becomes c + 32.  Code points above
\* 127 are multi-byte in UTF-8, all of their bytes are >= 128 and unchanged.
toLowerByteNone(c) == c
toLowerByte(c) == IF 65 <= c /\ c <= 90 THEN c + 32 ELSE c

toLower(s) == [i \in 1..Len(s) |-> toLowerByte(s[i])]

stringContains(s, substr) ==
    IF Len(substr) > Len(s) THEN FALSE
    ELSE \E i \in 0..(Len(s) - Len(substr)) :
            SubSeq(s, i + 1, i + Len(substr)) = substr

getEmojiForLevel(level) ==
    IF level >= LevelError THEN Emo.Cross
    ELSE IF level >= LevelWarn THEN Emo.Warning
    ELSE IF level >= LevelInfo THEN Emo.Info
    ELSE IF level >= LevelDebug THEN Emo.Magnifier
    ELSE Emo.Memo

\* the health block of getContextualEmoji: <<>> when it falls through
HealthEmoji(lowerMsg) ==
    IF stringContains(lowerMsg, Pat.health)
    THEN IF stringContains(lowerMsg, Pat.excellent) THEN Emo.GreenHeart
         ELSE IF stringContains(lowerMsg, Pat.good) THEN Emo.YellowCircle
         ELSE IF stringContains(lowerMsg, Pat.degraded) THEN Emo.OrangeCircle
         ELSE IF stringContains(lowerMsg, Pat.critical) THEN Emo.RedCircle
         ELSE <<>>
    ELSE <<>>

getContextualEmoji(msg) ==
    LET lowerMsg == toLower(msg) IN
    IF HealthEmoji(lowerMsg) # <<>> THEN HealthEmoji(lowerMsg)
    ELSE IF stringContains(lowerMsg, Pat.shutdown) \/ stringContains(lowerMsg, Pat.stopping)
         THEN Emo.Stop
    ELSE IF stringContains(lowerMsg, Pat.start) \/ stringContains(lowerMsg, Pat.parser_is_running)
         THEN Emo.Rocket
    ELSE IF stringContains(lowerMsg, Pat.success) THEN Emo.Party
    ELSE IF stringContains(lowerMsg, Pat.cleanup) THEN Emo.Broom
    ELSE IF stringContains(lowerMsg, Pat.config) \/ stringContains(lowerMsg, Pat.setting)
         THEN Emo.Gear
    ELSE IF stringContains(lowerMsg, Pat.connect) \/ stringContains(lowerMsg, Pat.websocket)
         THEN Emo.Plug
    ELSE IF stringContains(lowerMsg, Pat.failed) THEN Emo.Cross
    ELSE IF stringContains(lowerMsg, Pat.table) \/ stringContains(lowerMsg, Pat.game)
            \/ stringContains(lowerMsg, Pat.casino)
         THEN Emo.Slot
    ELSE IF stringContains(lowerMsg, Pat.statistics) \/ stringContains(lowerMsg, Pat.metrics)
         THEN Emo.Chart
    ELSE IF stringContains(lowerMsg, Pat.loading) \/ stringContains(lowerMsg, Pat.processing)
         THEN Emo.Hourglass
    ELSE IF stringContains(lowerMsg, Pat.creating) THEN Emo.New
    ELSE <<>>

\* The decoration every renderer resolves for a record: contextual emoji
\* first, level emoji as the fallback (EmojiHandler.Handle, PrettyHandler.Handle,
\* PrettyJSONHandler.Handle all carry this same if/else).
ResolveEmoji(msg, level) ==
    LET contextEmoji == getContextualEmoji(msg) IN
    IF contextEmoji # <<>> THEN contextEmoji ELSE getEmojiForLevel(level)

\* runewidth.RuneWidth for the code points the emoji literals use: the
\* variation selector U+FE0F is zero-width, U+2139 U+2699 U+26A0 are narrow,
\* the rest are East Asian Wide.
RuneWidth(c) ==
    IF c = 65039 THEN 0
    ELSE IF c \in {8505, 9881, 9888} THEN 1
    ELSE IF c < 128 THEN 1
    ELSE 2

RECURSIVE StringWidth(_)
StringWidth(s) == IF s = <<>> THEN 0 ELSE RuneWidth(Head(s)) + StringWidth(Tail(s))

getEmojiSpacing(emoji) ==
    IF StringWidth(emoji) > 1 THEN <<32>> ELSE <<32, 32>>

\* ------------------------------------------------------------------------
\* Attribute filter
\* ------------------------------------------------------------------------
skipKeys == {"service", "version", "metric_name", "metric_value", "environment", "pid"}

skipJSONKeys == {"service", "version", "environment", "pid", "metric_name", "metric_value"}

shouldSkipAttrNone(key) == FALSE
shouldSkipAttr(key) == key \in skipKeys

shouldSkipJSONAttr(key) == key \in skipJSONKeys

\* ------------------------------------------------------------------------
\* Handlers.  A handler is the value of its struct; an EmojiHandler holds
\* the handler it wraps.  mu is the state of the struct's own sync.Mutex:
\* 0 when unlocked, else the goroutine holding it.
\* ------------------------------------------------------------------------
HandlerOptions(level, addSource) == [Level |-> level, AddSource |-> addSource]

\* opts == nil is replaced by &slog.HandlerOptions{}
NilOptions == [Level |-> <<>>, AddSource |-> FALSE]

NewPrettyHandler(out, opts) ==
    [kind |-> "pretty", opts |-> opts, mu |-> 0, out |-> out,
     attrs |-> <<>>, groups |-> <<>>, showEmoji |-> TRUE]

NewPrettyJSONHandler(out, opts) ==
    [kind |-> "prettyjson", opts |-> opts, out |-> out]

\* slog.NewJSONHandler / slog.NewTextHandler of the standard library, as
\* SetupLogger builds them: no ReplaceAttr, attributes kept as given.
NewStdHandler(format, out, opts) ==
    [kind |-> IF format = "json" THEN "stdjson" ELSE "stdtext",
     opts |-> opts, out |-> out, attrs |-> <<>>, groups |-> <<>>]

NewEmojiHandler(wrapped) == [kind |-> "emoji", wrapped |-> wrapped]

\* the handler at the bottom of a chain of EmojiHandlers: the one that writes
RECURSIVE BaseHandler(_)
BaseHandler(h) == IF h.kind = "emoji" THEN BaseHandler(h.wrapped) ELSE h

\* minLevel of Enabled: LevelInfo unless opts.Level is set
MinLevel(opts) == IF opts.Level # <<>> THEN opts.Level[1] ELSE LevelInfo

EnabledAlways(h, level) == TRUE
RECURSIVE Enabled(_, _)
Enabled(h, level) ==
    IF h.kind = "emoji" THEN Enabled(h.wrapped, level)
    ELSE level >= MinLevel(h.opts)

\* WithAttrs: PrettyHandler returns a new struct (a fresh, unlocked mutex)
\* with the attributes appended; PrettyJSONHandler returns itself;
\* EmojiHandler wraps the derivation of the wrapped handler.  The slices
\* are values here, which is what append gives on a receiver whose slice
\* has no spare capacity (a handler fresh from its constructor);
\* PrettyWithAttrs and PrettyWithGroup keep the backing arrays.
RECURSIVE WithAttrs(_, _)
WithAttrs(h, attrs) ==
    IF h.kind = "emoji" THEN [kind |-> "emoji", wrapped |-> WithAttrs(h.wrapped, attrs)]
    ELSE IF h.kind = "prettyjson" THEN h
    ELSE IF h.kind = "pretty"
    THEN [kind |-> "pretty", opts |-> h.opts, mu |-> 0, out |-> h.out,
          attrs |-> h.attrs \o attrs, groups |-> h.groups, showEmoji |-> h.showEmoji]
    ELSE [h EXCEPT !.attrs = h.attrs \o attrs]

RECURSIVE WithGroup(_, _)
WithGroup(h, name) ==
    IF h.kind = "emoji" THEN [kind |-> "emoji", wrapped |-> WithGroup(h.wrapped, name)]
    ELSE IF h.kind = "prettyjson" THEN h
    ELSE IF h.kind = "pretty"
    THEN [kind |-> "pretty", opts |-> h.opts, mu |-> 0, out |-> h.out,
          attrs |-> h.attrs, groups |-> Append(h.groups, name), showEmoji |-> h.showEmoji]
    ELSE [h EXCEPT !.groups = Append(h.groups, name)]

\* ------------------------------------------------------------------------
\* Records and rendering
\* ------------------------------------------------------------------------
\* slog.NewRecord(time.Now(), level, msg, pc) followed by r.Add(args...).
\* pc is the call-site token: the frame runtime.Callers recorded, "" for a
\* zero pc.  deco is a history field: how many
\* times a decoration has been applied to this record so far.
NewRecord(level, msg, pc, attrs) ==
    [level |-> level, msg |-> msg, pc |-> pc, attrs |-> attrs, deco |-> 0]

Attr(key, value) == [key |-> key, value |-> value]

formatLevel(level) ==
    IF level >= LevelError THEN "ERROR"
    ELSE IF level >= LevelWarn THEN " WARN"
    ELSE IF level >= LevelInfo THEN " INFO"
    ELSE IF level >= LevelDebug THEN "DEBUG"
    ELSE "TRACE"

\* slog.Level.String() for the named levels
LevelString(level) ==
    IF level = LevelError THEN "ERROR"
    ELSE IF level = LevelWarn THEN "WARN"
    ELSE IF level = LevelInfo THEN "INFO"
    ELSE IF level = LevelDebug THEN "DEBUG"
    ELSE IF level = LevelTrace THEN "DEBUG-4"
    ELSE "OTHER"

\* one loop of formatAttrs: the attributes that are kept, in order
KeptAttrs(as) == SelectSeq(as, LAMBDA a : a.key # "" /\ ~shouldSkipAttr(a.key))

\* formatAttrs: the handler's attributes, then the record's; each rendered
\* key=value (kept here as the pair), joined by spaces
formatAttrs(h, r) == KeptAttrs(h.attrs) \o KeptAttrs(r.attrs)

\* the source segment: present when AddSource is set and the record has a pc
SourceOf(opts, r) == IF opts.AddSource /\ r.pc # "" THEN r.pc ELSE ""

\* the emoji PrettyHandler.Handle puts before the message
PrettyEmoji(h, r) ==
    IF h.showEmoji
    THEN LET emoji == ResolveEmoji(r.msg, r.level) IN
         IF emoji # <<>> THEN emoji \o getEmojiSpacing(emoji) ELSE <<>>
    ELSE <<>>

\* the line PrettyHandler.Handle builds: time, level, source, emoji+message,
\* attributes (the trailing newline is the last byte written)
PrettyLine(h, r) ==
    [kind |-> "pretty",
     level |-> formatLevel(r.level),
     source |-> SourceOf(h.opts, r),
     text |-> PrettyEmoji(h, r) \o r.msg,
     fields |-> formatAttrs(h, r),
     deco |-> r.deco + (IF PrettyEmoji(h, r) # <<>> THEN 1 ELSE 0)]

\* the attrs map of PrettyJSONHandler.Handle: only the record's attributes
\* are visited; a later attribute with the same key overwrites an earlier
\* one.  Kept as the sequence of surviving pairs (encoding/json writes them
\* sorted by key; no property here reads their order).  Values are opaque
\* scalars: the default case of the type switch.
RECURSIVE JSONAttrs(_)
JSONAttrs(as) ==
    IF as = <<>> THEN <<>>
    ELSE LET a == as[Len(as)]
             before == JSONAttrs(SubSeq(as, 1, Len(as) - 1))
         IN IF shouldSkipJSONAttr(a.key) THEN before
            ELSE IF \E i \in 1..Len(before) : before[i].key = a.key
                 THEN [i \in 1..Len(before) |->
                         IF before[i].key = a.key THEN a ELSE before[i]]
                 ELSE Append(before, a)

\* the JSON object PrettyJSONHandler.Handle marshals: emoji is its own key
PrettyJSONLine(h, r) ==
    [kind |-> "prettyjson",
     level |-> LevelString(r.level),
     source |-> SourceOf(h.opts, r),
     text |-> r.msg,
     emoji |-> ResolveEmoji(r.msg, r.level),
     fields |-> JSONAttrs(r.attrs),
     deco |-> r.deco + (IF ResolveEmoji(r.msg, r.level) # <<>> THEN 1 ELSE 0)]

\* the standard library's handlers: the handler's attributes then the
\* record's, none dropped except those with an empty key
StdLine(h, r) ==
    [kind |-> h.kind,
     level |-> LevelString(r.level),
     source |-> SourceOf(h.opts, r),
     text |-> r.msg,
     fields |-> SelectSeq(h.attrs \o r.attrs, LAMBDA a : a.key # ""),
     deco |-> r.deco]

\* EmojiHandler.Handle rewrites the record's message before delegating
EmojiRewrite(r) ==
    LET emoji == ResolveEmoji(r.msg, r.level) IN
    IF emoji # <<>>
    THEN [r EXCEPT !.msg = emoji \o getEmojiSpacing(emoji) \o r.msg, !.deco = r.deco + 1]
    ELSE r

\* the record as it reaches the base handler of a chain
RECURSIVE Delegated(_, _)
Delegated(h, r) == IF h.kind = "emoji" THEN Delegated(h.wrapped, EmojiRewrite(r)) ELSE r

\* what the base handler of the chain renders for the delegated record
BaseLine(h, r) ==
    IF h.kind = "pretty" THEN PrettyLine(h, r)
    ELSE IF h.kind = "prettyjson" THEN PrettyJSONLine(h, r)
    ELSE StdLine(h, r)

\* Handle, end to end: the line that reaches the sink
HandleLine(h, r) == BaseLine(BaseHandler(h), Delegated(h, r))

\* ------------------------------------------------------------------------
\* State
\* ------------------------------------------------------------------------
VARIABLES
    globalLogger,   \* the package variable: NilLogger or the logger built
    once,           \* the sync.Once: [done, m] (m: 0 or the goroutine in Do)
    slogDefault,    \* what slog.SetDefault was last given
    built,          \* history: one entry per run of the body of once.Do
    pc,             \* per goroutine: its position in InitGlobal / Get
    frame,          \* per goroutine: the call it is in and its locals
    ret,            \* per goroutine: what its last Get returned
    held,           \* the logger the application holds: [logger, origin, with]
    sink,           \* per output writer: the chunks written, in order
    lastCall,       \* history: what the latest log call did
    hs,             \* the handlers goroutines share, by address
    hpc,            \* per goroutine: its position in Handle
    emsg,           \* decoration resolver: the message given
    elevel,         \* decoration resolver: the level given
    eout,           \* decoration resolver: <<>> or <<the emoji resolved>>
    heap            \* the backing arrays of the attrs and groups slices

gvars == <<globalLogger, once, slogDefault, built>>
pvars == <<pc, frame, ret>>
lvars == <<held, sink, lastCall>>
hvars == <<hs, hpc>>
evars == <<emsg, elevel, eout>>
dvars == <<heap>>
vars == <<globalLogger, once, slogDefault, built, pc, frame, ret, held, sink,
          lastCall, hs, hpc, emsg, elevel, eout, heap>>

\* slog.New(handler); inst tells two constructions apart (pointer identity)
Logger(handler, inst) == [handler |-> handler, inst |-> inst]

\* the nil *slog.Logger
NilLogger == [handler |-> [kind |-> "nil"], inst |-> 0]

Outs == {"stdout", "buf"}

\* what the application holds: the logger, where it came from ("Get",
\* "With", "New") and, for With, the attributes it was given
Held(logger, origin, with) == [logger |-> logger, origin |-> origin, with |-> with]
NilHeld == Held(NilLogger, "none", <<>>)

\* the values of the variables a specification does not use
IdleGlobal ==
    /\ globalLogger = NilLogger
    /\ once = [done |-> FALSE, m |-> 0]
    /\ slogDefault = NilLogger
    /\ built = <<>>
IdleProcs == pc = <<>> /\ frame = <<>> /\ ret = <<>>
IdleLog ==
    /\ held = NilHeld
    /\ sink = [o \in Outs |-> <<>>]
    /\ lastCall = [op |-> "none"]
IdleHandle == hs = <<>> /\ hpc = <<>>
IdleEmoji == emsg = <<>> /\ elevel = LevelInfo /\ eout = <<>>
IdleHeap == heap = [attrs |-> <<>>, groups |-> <<>>]

\* ------------------------------------------------------------------------
\* Decoration resolver, applied to bounded inputs
\* ------------------------------------------------------------------------
MaxWords == 3

W_SHUTDOWN == <<83, 72, 85, 84, 68, 79, 87, 78>>        \* "SHUTDOWN"
W_ShutDown == <<83, 104, 117, 116, 68, 111, 119, 110>>  \* "ShutDown"
W_Health == <<72, 101, 97, 108, 116, 104>>              \* "Health"
W_space == <<32>>                                       \* " "
W_db == <<100, 98>>                                     \* "db"

Vocab == {Pat.shutdown, W_SHUTDOWN, W_ShutDown, Pat.health, W_Health,
          Pat.critical, Pat.good, Pat.start, W_space, W_db}

RECURSIVE Phrases(_)
Phrases(n) ==
    IF n = 0 THEN {<<>>}
    ELSE Phrases(n - 1) \cup {p \o w : p \in Phrases(n - 1), w \in Vocab}

Messages == Phrases(MaxWords)

Levels == {LevelTrace, LevelDebug, LevelInfo, LevelWarn, LevelError}

InitEmoji ==
    /\ emsg \in Messages
    /\ elevel \in Levels
    /\ eout = <<>>
    /\ IdleGlobal /\ IdleProcs /\ IdleLog /\ IdleHandle /\ IdleHeap

\* a renderer resolves the decoration of a record with this message and level
Resolve ==
    /\ eout = <<>>
    /\ eout' = <<ResolveEmoji(emsg, elevel)>>
    /\ UNCHANGED <<emsg, elevel, gvars, pvars, lvars, hvars, dvars>>

NextEmoji == Resolve

SpecEmoji == InitEmoji /\ [][NextEmoji]_vars

\* ------------------------------------------------------------------------
\* Logger construction
\* ------------------------------------------------------------------------
SetupLogger(w, level, format, addSource, inst) ==
    Logger(NewEmojiHandler(NewStdHandler(format, w, HandlerOptions(<<level>>, addSource))), inst)

SetupPrettyJSONLogger(w, level, addSource, inst) ==
    Logger(NewPrettyJSONHandler(w, HandlerOptions(<<level>>, addSource)), inst)

\* (the ReplaceAttr that SetupPrettyLogger puts in opts is never read by
\* PrettyHandler and is left out)
SetupPrettyLogger(w, level, addSource, inst) ==
    Logger(NewPrettyHandler(w, HandlerOptions(<<level>>, addSource)), inst)

\* the switch in the body of InitGlobal: the logger assigned to globalLogger
GlobalFor(level, format, addSource, inst) ==
    IF format = "json" THEN SetupLogger("stdout", level, format, addSource, inst)
    ELSE IF format = "pretty-json" THEN SetupPrettyJSONLogger("stdout", level, addSource, inst)
    ELSE SetupPrettyLogger("stdout", level, addSource, inst)

\* the arguments Get passes to InitGlobal
GetDefaultLevel == LevelInfo
GetDefaultFormatJSON == "json"
GetDefaultFormat == "text"
GetDefaultAddSource == FALSE

\* configuration of a logger, read back from its handler chain
LoggerLevel(l) == MinLevel(BaseHandler(l.handler).opts)
LoggerAddSource(l) == BaseHandler(l.handler).opts.AddSource
LoggerKind(l) == BaseHandler(l.handler).kind

\* ------------------------------------------------------------------------
\* InitGlobal and Get under concurrency
\* ------------------------------------------------------------------------
NumProcs == 2
Procs == 1..NumProcs

\* the arguments applications pass to InitGlobal
InitArgs ==
    { [level |-> LevelDebug, format |-> "pretty", addSource |-> TRUE],
      [level |-> LevelWarn, format |-> "json", addSource |-> FALSE],
      [level |-> LevelError, format |-> "pretty-json", addSource |-> TRUE] }

\* frame[t]: op and args of the call goroutine t is in (or was last in);
\* via: "app" when the application called InitGlobal, "Get" when Get did;
\* late: the singleton was already initialized when the call began;
\* hb: t has synchronized with the assignment of globalLogger (through
\* once.Do); seen: the last value t read from globalLogger.
IdleFrame ==
    [op |-> "none", level |-> LevelInfo, format |-> "", addSource |-> FALSE,
     via |-> "app", late |-> FALSE, hb |-> FALSE, seen |-> NilLogger]

InitGlobalSpec ==
    /\ globalLogger = NilLogger
    /\ once = [done |-> FALSE, m |-> 0]
    /\ slogDefault = NilLogger
    /\ built = <<>>
    /\ pc = [t \in Procs |-> "idle"]
    /\ frame = [t \in Procs |-> IdleFrame]
    /\ ret = [t \in Procs |-> <<>>]
    /\ IdleLog /\ IdleHandle /\ IdleEmoji /\ IdleHeap

\* Get reads globalLogger without synchronization.  A goroutine that has
\* synchronized with the assignment reads the current value; another one
\* reads the current value or the stale one it saw last.
ObservableGlobal(t) ==
    IF frame[t].hb THEN {globalLogger} ELSE {frame[t].seen, globalLogger}

\* once.Do, fast path: the atomic load of done
OnceLoadDone(o) == o.done

\* once.Do, slow path: with the mutex held, f runs only if done is still unset
OnceMustRunAlways(o) == TRUE
OnceMustRun(o) == ~o.done

\* where a goroutine continues when InitGlobal returns
AfterInit(t) == IF frame[t].via = "Get" THEN "get_return" ELSE "returned"

CallInitGlobal(t, a) ==
    /\ pc[t] \in {"idle", "returned"}
    /\ pc' = [pc EXCEPT ![t] = "once_fast"]
    /\ frame' = [frame EXCEPT ![t] =
           [op |-> "InitGlobal", level |-> a.level, format |-> a.format,
            addSource |-> a.addSource, via |-> "app", late |-> once.done,
            hb |-> frame[t].hb, seen |-> frame[t].seen]]
    /\ UNCHANGED <<gvars, ret, lvars, hvars, evars, dvars>>

CallGet(t) ==
    /\ pc[t] \in {"idle", "returned"}
    /\ pc' = [pc EXCEPT ![t] = "get_read"]
    /\ frame' = [frame EXCEPT ![t] =
           [op |-> "Get", level |-> LevelInfo, format |-> "", addSource |-> FALSE,
            via |-> "Get", late |-> once.done,
            hb |-> frame[t].hb, seen |-> frame[t].seen]]
    /\ UNCHANGED <<gvars, ret, lvars, hvars, evars, dvars>>

\* if globalLogger == nil { InitGlobal(slog.LevelInfo, "text", false) }
GetRead(t) ==
    /\ pc[t] = "get_read"
    /\ \E v \in ObservableGlobal(t) :
          IF v = NilLogger
          THEN /\ pc' = [pc EXCEPT ![t] = "once_fast"]
               /\ frame' = [frame EXCEPT ![t].level = GetDefaultLevel,
                                         ![t].format = GetDefaultFormat,
                                         ![t].addSource = GetDefaultAddSource,
                                         ![t].seen = v]
          ELSE /\ pc' = [pc EXCEPT ![t] = "get_return"]
               /\ frame' = [frame EXCEPT ![t].seen = v]
    /\ UNCHANGED <<gvars, ret, lvars, hvars, evars, dvars>>

OnceFast(t) ==
    /\ pc[t] = "once_fast"
    /\ IF OnceLoadDone(once)
       THEN /\ pc' = [pc EXCEPT ![t] = AfterInit(t)]
            /\ frame' = [frame EXCEPT ![t].hb = TRUE]
       ELSE /\ pc' = [pc EXCEPT ![t] = "once_lock"]
            /\ frame' = frame
    /\ UNCHANGED <<gvars, ret, lvars, hvars, evars, dvars>>

OnceLock(t) ==
    /\ pc[t] = "once_lock"
    /\ once.m = 0
    /\ once' = [once EXCEPT !.m = t]
    /\ pc' = [pc EXCEPT ![t] = "once_check"]
    /\ UNCHANGED <<globalLogger, slogDefault, built, frame, ret, lvars, hvars, evars, dvars>>

OnceCheck(t) ==
    /\ pc[t] = "once_check"
    /\ IF OnceMustRun(once)
       THEN /\ pc' = [pc EXCEPT ![t] = "body_assign"]
            /\ UNCHANGED <<once, frame>>
       ELSE /\ once' = [once EXCEPT !.m = 0]
            /\ pc' = [pc EXCEPT ![t] = AfterInit(t)]
            /\ frame' = [frame EXCEPT ![t].hb = TRUE]
    /\ UNCHANGED <<globalLogger, slogDefault, built, ret, lvars, hvars, evars, dvars>>

\* the switch of the body: globalLogger = Setup...(os.Stdout, ...)
BodyAssign(t) ==
    /\ pc[t] = "body_assign"
    /\ LET l == GlobalFor(frame[t].level, frame[t].format, frame[t].addSource, Len(built) + 1)
       IN /\ globalLogger' = l
          /\ built' = Append(built, [via |-> frame[t].via, logger |-> l])
          /\ frame' = [frame EXCEPT ![t].hb = TRUE, ![t].seen = l]
    /\ pc' = [pc EXCEPT ![t] = "body_default"]
    /\ UNCHANGED <<once, slogDefault, ret, lvars, hvars, evars, dvars>>

\* slog.SetDefault(globalLogger)
BodySetDefault(t) ==
    /\ pc[t] = "body_default"
    /\ slogDefault' = globalLogger
    /\ pc' = [pc EXCEPT ![t] = "once_done"]
    /\ UNCHANGED <<globalLogger, once, built, frame, ret, lvars, hvars, evars, dvars>>

\* f has returned: once.Do stores done and unlocks
OnceDone(t) ==
    /\ pc[t] = "once_done"
    /\ once' = [done |-> TRUE, m |-> 0]
    /\ pc' = [pc EXCEPT ![t] = AfterInit(t)]
    /\ UNCHANGED <<globalLogger, slogDefault, built, frame, ret, lvars, hvars, evars, dvars>>

\* return globalLogger
GetReturn(t) ==
    /\ pc[t] = "get_return"
    /\ \E v \in ObservableGlobal(t) :
          /\ ret' = [ret EXCEPT ![t] = <<v>>]
          /\ frame' = [frame EXCEPT ![t].seen = v]
    /\ pc' = [pc EXCEPT ![t] = "returned"]
    /\ UNCHANGED <<gvars, lvars, hvars, evars, dvars>>

NextGlobal ==
    \E t \in Procs :
        \/ \E a \in InitArgs : CallInitGlobal(t, a)
        \/ CallGet(t)
        \/ GetRead(t)
        \/ OnceFast(t)
        \/ OnceLock(t)
        \/ OnceCheck(t)
        \/ BodyAssign(t)
        \/ BodySetDefault(t)
        \/ OnceDone(t)
        \/ GetReturn(t)

SpecGlobal == InitGlobalSpec /\ [][NextGlobal]_vars

\* ------------------------------------------------------------------------
\* C1, C2, C3
\* ------------------------------------------------------------------------
\* goroutines whose current call has returned
Returned == {t \in Procs : pc[t] = "returned"}

\* C1: however first calls of InitGlobal and Get interleave, the body of
\* once.Do runs once, globalLogger is assigned once, and every Get returns
\* that one non-nil logger.
C1_OneInstance ==
    /\ Len(built) <= 1
    /\ Returned # {} => Len(built) = 1
    /\ \A t \in Procs :
          ret[t] # <<>> =>
             /\ ret[t][1] # NilLogger
             /\ ret[t][1] = globalLogger
             /\ built = <<[via |-> built[1].via, logger |-> ret[t][1]]>>

\* two calls that both began before the singleton was initialized, one of
\* them a Get and one an InitGlobal, have returned, and Get returned the
\* instance
C1_Witness ==
    \E t1, t2 \in Procs :
        /\ t1 # t2
        /\ pc[t1] = "returned" /\ pc[t2] = "returned"
        /\ ~frame[t1].late /\ ~frame[t2].late
        /\ frame[t1].op = "Get" /\ frame[t2].op = "InitGlobal"
        /\ ret[t1] = <<globalLogger>>
        /\ globalLogger # NilLogger

\* C2: once globalLogger is set, no step changes it, so the handler, the
\* threshold and the call-site setting stay those of the first initialization.
C2_NoReinit ==
    [][globalLogger # NilLogger => globalLogger' = globalLogger]_vars

\* an InitGlobal that began after initialization, with another level,
\* another format and another addSource, has returned
C2_Witness ==
    \E t \in Procs :
        /\ pc[t] = "returned"
        /\ frame[t].op = "InitGlobal" /\ frame[t].late
        /\ globalLogger # NilLogger
        /\ frame[t].level # LoggerLevel(globalLogger)
        /\ frame[t].addSource # LoggerAddSource(globalLogger)
        /\ GlobalFor(frame[t].level, frame[t].format, frame[t].addSource, 1).handler
              # globalLogger.handler

\* C3 as stated: the singleton Get constructs has threshold info, no
\* call-site resolution and the plain structured (JSON) renderer.
C3_LazyDefaultIsJSON ==
    \A i \in 1..Len(built) :
        built[i].via = "Get" =>
            /\ LoggerLevel(built[i].logger) = LevelInfo
            /\ ~LoggerAddSource(built[i].logger)
            /\ LoggerKind(built[i].logger) = "stdjson"

\* C3 amended: the singleton Get constructs has threshold info, no
\* call-site resolution and the pretty text renderer (PrettyHandler).
C3_LazyDefaultIsPretty ==
    \A i \in 1..Len(built) :
        built[i].via = "Get" =>
            /\ LoggerLevel(built[i].logger) = LevelInfo
            /\ ~LoggerAddSource(built[i].logger)
            /\ built[i].logger.handler.kind = "pretty"

\* Get ran the body itself and has returned the logger it built
C3_Witness ==
    \E t \in Procs :
        /\ pc[t] = "returned" /\ frame[t].op = "Get"
        /\ built # <<>> /\ built[1].via = "Get"
        /\ ret[t] = <<built[1].logger>>

\* ------------------------------------------------------------------------
\* Handle under concurrency: goroutines log through handlers they share
\* ------------------------------------------------------------------------
NumWriters == 2
Writers == 1..NumWriters

\* addresses of the shared handlers
PrettyAddr == 1
PrettyJSONAddr == 2

\* one chunk of a Write: the sink is any io.Writer, so the bytes of one
\* Write call are not assumed to reach it atomically; a line reaches it in
\* two parts, its first bytes (half 1) and the rest up to and including the
\* newline (half 2).  h is the handler (address, 0 when it is not shared),
\* by the goroutine writing.
Chunk(line, h, by, half) == [line |-> line, h |-> h, by |-> by, half |-> half]

\* the levels the concurrent log calls use (all at or above the threshold)
HandleLevels == {LevelInfo, LevelError}

\* a goroutine's frame of Handle: writes counts its calls of out.Write,
\* werr is what out.Write returned and err what Handle returned
IdleHandleFrame ==
    [at |-> "idle", h |-> 0, level |-> LevelInfo, overlap |-> FALSE,
     writes |-> 0, werr |-> "nil", err |-> "nil"]

\* positions inside Handle between the start of rendering and the return
InSection == {"write", "write2", "unlock"}

InitHandle ==
    /\ hs = <<NewPrettyHandler("buf", NilOptions), NewPrettyJSONHandler("stdout", NilOptions)>>
    /\ hpc = [t \in Writers |-> IdleHandleFrame]
    /\ IdleLog
    /\ IdleGlobal /\ IdleProcs /\ IdleEmoji /\ IdleHeap

\* h.mu.Lock() can proceed
CanLockAlways(h) == TRUE
CanLock(h) == h.mu = 0

\* the record a goroutine hands to Handle
HandleRecord(t) == NewRecord(hpc[t].level, W_db, "", <<>>)

\* the line Handle of the handler at address a writes for goroutine t
LineOf(t) == BaseLine(hs[hpc[t].h], HandleRecord(t))

\* a goroutine calls Handle on a shared handler, with an enabled record
HandleCall(t, a, level) ==
    /\ hpc[t].at = "idle"
    /\ Enabled(hs[a], level)
    /\ hpc' = [hpc EXCEPT ![t] =
          [at |-> IF hs[a].kind = "pretty" THEN "lock" ELSE "write",
           h |-> a, level |-> level,
           overlap |-> \E u \in Writers \ {t} :
                          hpc[u].h = a /\ hpc[u].at \in InSection \cup {"lock"},
           writes |-> 0, werr |-> "nil", err |-> "nil"]]
    /\ UNCHANGED <<hs, gvars, pvars, lvars, evars, dvars>>

\* PrettyHandler.Handle: h.mu.Lock(); the line is then rendered
PrettyLock(t) ==
    /\ hpc[t].at = "lock"
    /\ CanLock(hs[hpc[t].h])
    /\ hs' = [hs EXCEPT ![hpc[t].h].mu = t]
    /\ hpc' = [hpc EXCEPT ![t].at = "write"]
    /\ UNCHANGED <<gvars, pvars, lvars, evars, dvars>>

\* _, err := h.out.Write(...); return err
HandleReturnNil(werr) == "nil"
HandleReturn(werr) == werr

\* h.out.Write(...): the first bytes reach the sink
WriteFirst(t) ==
    /\ hpc[t].at = "write"
    /\ LET o == hs[hpc[t].h].out IN
       sink' = [sink EXCEPT ![o] = Append(@, Chunk(LineOf(t), hpc[t].h, t, 1))]
    /\ hpc' = [hpc EXCEPT ![t].at = "write2", ![t].writes = @ + 1]
    /\ UNCHANGED <<hs, held, lastCall, gvars, pvars, evars, dvars>>

\* the rest of the bytes, the newline last; Write returns; PrettyJSONHandler
\* returns, PrettyHandler still has its deferred Unlock to run
WriteRest(t) ==
    /\ hpc[t].at = "write2"
    /\ LET o == hs[hpc[t].h].out IN
       sink' = [sink EXCEPT ![o] = Append(@, Chunk(LineOf(t), hpc[t].h, t, 2))]
    /\ hpc' = [hpc EXCEPT ![t].at = IF hs[hpc[t].h].kind = "pretty" THEN "unlock" ELSE "done",
                           ![t].err = HandleReturn("nil")]
    /\ UNCHANGED <<hs, held, lastCall, gvars, pvars, evars, dvars>>

\* defer h.mu.Unlock()
PrettyUnlock(t) ==
    /\ hpc[t].at = "unlock"
    /\ hs' = [hs EXCEPT ![hpc[t].h].mu = 0]
    /\ hpc' = [hpc EXCEPT ![t].at = "done"]
    /\ UNCHANGED <<gvars, pvars, lvars, evars, dvars>>

NextHandle ==
    \E t \in Writers :
        \/ \E a \in {PrettyAddr, PrettyJSONAddr}, level \in HandleLevels : HandleCall(t, a, level)
        \/ PrettyLock(t)
        \/ WriteFirst(t)
        \/ WriteRest(t)
        \/ PrettyUnlock(t)

SpecHandle == InitHandle /\ [][NextHandle]_vars

\* ------------------------------------------------------------------------
\* Handle on a sink whose Write can fail
\* ------------------------------------------------------------------------
\* the errors the sink's Write returns
SinkErrors == {"EIO", "EPIPE"}

\* h.out.Write(...) fails with e, before any byte reached the sink or after
\* the first ones; Handle returns, PrettyHandler through its deferred Unlock
WriteFail(t, e) ==
    /\ hpc[t].at \in {"write", "write2"}
    /\ hpc' = [hpc EXCEPT ![t].at = IF hs[hpc[t].h].kind = "pretty" THEN "unlock" ELSE "done",
                           ![t].writes = IF hpc[t].at = "write" THEN @ + 1 ELSE @,
                           ![t].werr = e,
                           ![t].err = HandleReturn(e)]
    /\ UNCHANGED <<hs, gvars, pvars, lvars, evars, dvars>>

NextWriteErr ==
    \/ NextHandle
    \/ \E t \in Writers, e \in SinkErrors : WriteFail(t, e)

SpecWriteErr == InitHandle /\ [][NextWriteErr]_vars

\* ------------------------------------------------------------------------
\* C4, C5
\* ------------------------------------------------------------------------
\* the chunks of s are whole lines one after the other: every first half is
\* followed at once by the second half of the same line from the same call
\* (the last chunk may be a first half still being written)
WholeLines(s) ==
    \A i \in 1..Len(s) :
        IF s[i].half = 1
        THEN i = Len(s) \/ (s[i + 1].half = 2 /\ s[i + 1].by = s[i].by
                             /\ s[i + 1].line = s[i].line)
        ELSE i > 1 /\ s[i - 1].half = 1 /\ s[i - 1].by = s[i].by

\* the log calls on the handler at address a whose Write has returned
Written(a) == {t \in Writers : hpc[t].h = a /\ hpc[t].at \in {"unlock", "done"}}

\* the newlines in s
Newlines(s) == Cardinality({i \in 1..Len(s) : s[i].half = 2})

\* sink o has been written by the one PrettyHandler at address a only
OnlyWriter(o, a) ==
    /\ hs[a].kind = "pretty" /\ hs[a].out = o
    /\ \A i \in 1..Len(sink[o]) : sink[o][i].h = a

\* C4: the log calls made concurrently on one PrettyHandler leave one whole
\* line each in its sink, no line's bytes mixed with another's.
C4_WholeLines ==
    \A o \in Outs : \A a \in 1..Len(hs) :
        OnlyWriter(o, a) =>
            /\ WholeLines(sink[o])
            /\ Newlines(sink[o]) = Cardinality(Written(a))

\* every goroutine has logged through the PrettyHandler, one of them
\* calling while another was inside Handle, and all lines are in the sink
C4_Witness ==
    /\ \A t \in Writers : hpc[t].at = "done" /\ hpc[t].h = PrettyAddr
    /\ \E t \in Writers : hpc[t].overlap
    /\ Newlines(sink["buf"]) = NumWriters
    /\ NumWriters >= 2

\* C5: on PrettyHandler and PrettyJSONHandler alike, two Handle calls on one
\* handler are never both between the start of rendering and the return.
C5_HandleExclusive ==
    \A t, u \in Writers :
        (t # u /\ hpc[t].at \in InSection /\ hpc[u].at \in InSection)
            => hpc[t].h # hpc[u].h

\* ------------------------------------------------------------------------
\* The logging calls, one goroutine: InitGlobal, Get, With, slog.New, the
\* free functions and the methods of a held logger, each as one step
\* ------------------------------------------------------------------------

\* once.Do(f) runs f: done is unset on the fast path and under the mutex
OnceRuns == ~OnceLoadDone(once) /\ OnceMustRun(once)

\* InitGlobal(level, format, addSource), whole
InitGlobalEffect(level, format, addSource, via) ==
    IF OnceRuns
    THEN LET l == GlobalFor(level, format, addSource, Len(built) + 1) IN
         /\ globalLogger' = l
         /\ slogDefault' = l
         /\ built' = Append(built, [via |-> via, logger |-> l])
         /\ once' = [done |-> TRUE, m |-> 0]
    ELSE UNCHANGED gvars

\* Get(), whole: its effect and its result
GetEffect ==
    IF globalLogger = NilLogger
    THEN InitGlobalEffect(GetDefaultLevel, GetDefaultFormat, GetDefaultAddSource, "Get")
    ELSE UNCHANGED gvars

GetResult ==
    IF globalLogger = NilLogger /\ OnceRuns
    THEN GlobalFor(GetDefaultLevel, GetDefaultFormat, GetDefaultAddSource, Len(built) + 1)
    ELSE globalLogger

\* slog.Logger.With(args...): the same logger when there are no args, else
\* a clone over handler.WithAttrs
LoggerWith(l, attrs) ==
    IF attrs = <<>> THEN l ELSE Logger(WithAttrs(l.handler, attrs), 0)

\* runtime.Callers(skip, pcs[:]) with one slot: the frame skip levels up,
\* where frame 0 is runtime.Callers itself
CallersSkip == 3
CallersOffByOne(stack, skip) == IF skip <= Len(stack) THEN stack[skip] ELSE ""
Callers(stack, skip) == IF skip + 1 <= Len(stack) THEN stack[skip + 1] ELSE ""

\* the free function of each level
FreeFunction(level) ==
    IF level = LevelDebug THEN "Debug"
    ELSE IF level = LevelInfo THEN "Info"
    ELSE IF level = LevelWarn THEN "Warn"
    ELSE "Error"

\* the stack when logWithCaller calls runtime.Callers, innermost first
FreeStack(level) == <<"runtime.Callers", "logWithCaller", FreeFunction(level), "caller">>

\* the stack when slog.Logger.log calls runtime.Callers
MethodStack(level) == <<"runtime.Callers", "slog.Logger.log", FreeFunction(level), "caller">>

\* one whole Write of a line and its newline
WriteLine(s, line) == s \o <<Chunk(line, 0, 0, 1), Chunk(line, 0, 0, 2)>>

\* what a log call did: the logger it went to, the message and args it was
\* given, whether Handle was invoked, the call-site it captured and the
\* chunks it wrote
Call(op, h, level, msg, args, handled, callsite, wrote, line) ==
    [op |-> op, held |-> h, level |-> level, msg |-> msg, args |-> args,
     handled |-> handled, callsite |-> callsite, wrote |-> wrote, line |-> line]

NoLine == [kind |-> "none"]

\* the check, the capture and Handle, shared by logWithCaller and by
\* slog.Logger.log: op names the caller, h the logger with its origin
LogThrough(op, h, stack, level, msg, attrs, maxLines) ==
    LET l == h.logger
        o == BaseHandler(l.handler).out
    IN IF ~Enabled(l.handler, level)
       THEN /\ sink' = sink
            /\ lastCall' = Call(op, h, level, msg, attrs, FALSE, "", 0, NoLine)
       ELSE LET r == NewRecord(level, msg, Callers(stack, CallersSkip), attrs)
                line == HandleLine(l.handler, r)
            IN /\ Len(sink[o]) < 2 * maxLines
               /\ sink' = [sink EXCEPT ![o] = WriteLine(@, line)]
               /\ lastCall' = Call(op, h, level, msg, attrs, TRUE, r.pc,
                                   Len(sink'[o]) - Len(sink[o]), line)

SeqInitGlobal(a) ==
    /\ InitGlobalEffect(a.level, a.format, a.addSource, "app")
    /\ UNCHANGED <<lvars, pvars, hvars, evars, dvars>>

\* log := Get()
SeqGet ==
    /\ GetEffect
    /\ held' = Held(GetResult, "Get", <<>>)
    /\ UNCHANGED <<sink, lastCall, pvars, hvars, evars, dvars>>

\* log := With(args...)
SeqWith(attrs) ==
    /\ GetEffect
    /\ held' = Held(LoggerWith(GetResult, attrs), "With", attrs)
    /\ UNCHANGED <<sink, lastCall, pvars, hvars, evars, dvars>>

\* log := slog.New(h), h built with the public constructors
SeqNew(h) ==
    /\ held' = Held(Logger(h, 0), "New", <<>>)
    /\ UNCHANGED <<sink, lastCall, gvars, pvars, hvars, evars, dvars>>

\* Debug / Info / Warn / Error (msg, args...)
FreeLog(level, msg, attrs, maxLines) ==
    /\ GetEffect
    /\ LogThrough("free", Held(GetResult, "Get", <<>>), FreeStack(level),
                  level, msg, attrs, maxLines)
    /\ UNCHANGED <<held, pvars, hvars, evars, dvars>>

\* log.Debug / log.Info / log.Warn / log.Error (msg, args...)
MethodLog(level, msg, attrs, maxLines) ==
    /\ held # NilHeld
    /\ LogThrough("method", held, MethodStack(level), level, msg, attrs, maxLines)
    /\ UNCHANGED <<held, gvars, pvars, hvars, evars, dvars>>

InitLog == IdleGlobal /\ IdleProcs /\ IdleLog /\ IdleHandle /\ IdleEmoji /\ IdleHeap

\* ------------------------------------------------------------------------
\* Thresholds: every format and level of InitGlobal, handlers built without
\* options, log calls at every level
\* ------------------------------------------------------------------------
MaxLevelLines == 1

NamedLevels == {LevelDebug, LevelInfo, LevelWarn, LevelError}
Formats == {"json", "pretty-json", "pretty"}

LevelInitArgs ==
    [level : NamedLevels, format : Formats, addSource : {FALSE}]
      \cup {[level |-> LevelDebug, format |-> "pretty", addSource |-> TRUE]}

\* handlers built with nil options: no threshold configured
UnsetHandlers ==
    { NewPrettyHandler("stdout", NilOptions),
      NewPrettyJSONHandler("stdout", NilOptions),
      NewEmojiHandler(NewStdHandler("json", "stdout", NilOptions)) }

NextLevels ==
    \/ \E a \in LevelInitArgs : SeqInitGlobal(a)
    \/ SeqGet
    \/ \E h \in UnsetHandlers : SeqNew(h)
    \/ \E level \in NamedLevels : FreeLog(level, W_db, <<>>, MaxLevelLines)
    \/ \E level \in NamedLevels : MethodLog(level, W_db, <<>>, MaxLevelLines)

SpecLevels == InitLog /\ [][NextLevels]_vars

\* ------------------------------------------------------------------------
\* Attributes: each format of InitGlobal, attributes given to With and at
\* the call, with every key of the skip lists among them
\* ------------------------------------------------------------------------
MaxAttrLines == 1

AttrInitArgs == [level : {LevelInfo}, format : Formats, addSource : {FALSE}]

AttrKeys == skipKeys \cup skipJSONKeys \cup {"port"}

\* attribute values are opaque to every renderer (integers here)
AttrInputs == {Attr(k, 1) : k \in AttrKeys} \cup {Attr("service", 2)}

\* args of a log call: none, one attribute, or two
CallAttrs ==
    {<<>>} \cup {<<a>> : a \in AttrInputs}
      \cup {<<Attr("service", 1), Attr("port", 1)>>, <<Attr("port", 1), Attr("pid", 1)>>}

\* args of With: one attribute, or two
WithArgs ==
    {<<a>> : a \in AttrInputs} \cup {<<Attr("port", 1), Attr("version", 1)>>}

NextAttrs ==
    \/ \E a \in AttrInitArgs : SeqInitGlobal(a)
    \/ \E attrs \in WithArgs : SeqWith(attrs)
    \/ \E attrs \in CallAttrs : FreeLog(LevelInfo, W_db, attrs, MaxAttrLines)
    \/ \E attrs \in CallAttrs : MethodLog(LevelInfo, W_db, attrs, MaxAttrLines)

SpecAttrs == InitLog /\ [][NextAttrs]_vars

\* ------------------------------------------------------------------------
\* Handler chains: what NewEmojiHandler, NewPrettyHandler,
\* NewPrettyJSONHandler and the standard handlers compose to
\* ------------------------------------------------------------------------
MaxWrap == 2
MaxChainLines == 1

ChainBases ==
    { NewPrettyHandler("stdout", NilOptions),
      NewPrettyJSONHandler("stdout", NilOptions),
      NewStdHandler("json", "stdout", NilOptions),
      NewStdHandler("text", "stdout", NilOptions),
      NewStdHandler("text", "stdout", HandlerOptions(<<LevelDebug>>, FALSE)) }

RECURSIVE Wrapped(_, _)
Wrapped(h, n) == IF n = 0 THEN h ELSE NewEmojiHandler(Wrapped(h, n - 1))

Chains == {Wrapped(b, n) : b \in ChainBases, n \in 0..MaxWrap}

\* the calls TestEmojiHandlerIntegration makes
TestCalls ==
    { [level |-> LevelInfo,   \* "Starting application"
       msg |-> <<83, 116, 97, 114, 116, 105, 110, 103, 32, 97, 112, 112, 108, 105, 99, 97, 116, 105, 111, 110>>],
      [level |-> LevelWarn,   \* "Configuration issue"
       msg |-> <<67, 111, 110, 102, 105, 103, 117, 114, 97, 116, 105, 111, 110, 32, 105, 115, 115, 117, 101>>],
      [level |-> LevelError,   \* "Connection failed"
       msg |-> <<67, 111, 110, 110, 101, 99, 116, 105, 111, 110, 32, 102, 97, 105, 108, 101, 100>>],
      [level |-> LevelDebug,   \* "Processing data"
       msg |-> <<80, 114, 111, 99, 101, 115, 115, 105, 110, 103, 32, 100, 97, 116, 97>>] }

ChainCalls == [level : {LevelInfo, LevelError}, msg : {W_db, Pat.shutdown}] \cup TestCalls

NextChain ==
    \/ \E h \in Chains : SeqNew(h)
    \/ \E c \in ChainCalls : MethodLog(c.level, c.msg, <<>>, MaxChainLines)

SpecChain == InitLog /\ [][NextChain]_vars

\* ------------------------------------------------------------------------
\* C6
\* ------------------------------------------------------------------------
\* the threshold a logger was configured with, info when none was
ConfiguredThreshold(l) ==
    LET opts == BaseHandler(l.handler).opts IN
    IF opts.Level = <<>> THEN LevelInfo ELSE opts.Level[1]

\* C6: a log call below the threshold of the logger it goes to, through a
\* free function or a logger method, does not invoke Handle, writes nothing
\* and captures no call-site.
C6_BelowThresholdSilent ==
    (lastCall.op # "none" /\ lastCall.level < ConfiguredThreshold(lastCall.held.logger))
        => /\ ~lastCall.handled
           /\ lastCall.wrote = 0
           /\ lastCall.callsite = ""

\* a debug call through a free function under threshold info has returned
\* and the sink holds nothing
C6_Witness ==
    /\ lastCall.op = "free" /\ lastCall.level = LevelDebug
    /\ ConfiguredThreshold(lastCall.held.logger) = LevelInfo
    /\ ~lastCall.handled
    /\ \A o \in Outs : sink[o] = <<>>

\* a warn call through a method of a logger with no threshold configured
\* was written, and a debug call through it has since returned unhandled
C6_WitnessMethod ==
    /\ lastCall.op = "method" /\ lastCall.level = LevelDebug
    /\ BaseHandler(lastCall.held.logger.handler).opts.Level = <<>>
    /\ ~lastCall.handled
    /\ sink["stdout"] # <<>>

\* ------------------------------------------------------------------------
\* C7, C8, C9
\* ------------------------------------------------------------------------
Denylist == {"service", "version", "environment", "pid", "metric_name", "metric_value"}

\* the keys of the attributes a written line shows
ShownKeys(line) == {line.fields[i].key : i \in 1..Len(line.fields)}

\* the attributes a written line shows
ShownAttrs(line) == {line.fields[i] : i \in 1..Len(line.fields)}

\* C7: whichever renderer InitGlobal bound, no line in the sink shows an
\* attribute whose key is in the denylist, given at the call or through With.
C7_DenylistNeverShown ==
    \A o \in Outs : \A i \in 1..Len(sink[o]) :
        ShownKeys(sink[o][i].line) \cap Denylist = {}

\* C8: a record logged through a logger obtained from With shows every
\* attribute With was given whose key is outside the denylist, whichever
\* format the global logger has.
C8_WithAttrsShown ==
    (lastCall.op = "method" /\ lastCall.handled /\ lastCall.held.origin = "With")
        => \A i \in 1..Len(lastCall.held.with) :
              lastCall.held.with[i].key \notin Denylist
                 => lastCall.held.with[i] \in ShownAttrs(lastCall.line)

\* C9: no line in the sink had a decoration applied more than once,
\* whatever chain of handlers rendered it.
C9_DecoratedOnce ==
    \A o \in Outs : \A i \in 1..Len(sink[o]) : sink[o][i].line.deco <= 1

\* ------------------------------------------------------------------------
\* C10
\* ------------------------------------------------------------------------
\* c equals the lowercase ASCII letter d, or its uppercase form
SameLetter(c, d) == c = d \/ (97 <= d /\ d <= 122 /\ c = d - 32)

\* msg contains word in any letter case (word given in lowercase)
ContainsAnyCase(msg, word) ==
    \E i \in 0..(Len(msg) - Len(word)) :
        \A j \in 1..Len(word) : SameLetter(msg[i + j], word[j])

\* msg names a health status: "health" with one of the four grades
HealthStatus(msg) ==
    /\ ContainsAnyCase(msg, Pat.health)
    /\ \E g \in {Pat.excellent, Pat.good, Pat.degraded, Pat.critical} :
          ContainsAnyCase(msg, g)

\* C10 as stated: every message containing "shutdown" in any letter case
\* resolves, at every level, to the shutdown decoration.
C10_ShutdownAlwaysStop ==
    (eout # <<>> /\ ContainsAnyCase(emsg, Pat.shutdown)) => eout[1] = Emo.Stop

\* C10 amended: every message that contains "shutdown" in any letter case
\* and names no health status resolves, at every level, to the shutdown
\* decoration.
C10_ShutdownStopUnlessHealth ==
    (eout # <<>> /\ ContainsAnyCase(emsg, Pat.shutdown) /\ ~HealthStatus(emsg))
        => eout[1] = Emo.Stop

\* a mixed-case "ShutDown" after "start", at debug level, resolved to the stop sign
C10_Witness ==
    /\ eout = <<Emo.Stop>>
    /\ emsg = Pat.start \o W_space \o W_ShutDown
    /\ elevel = LevelDebug


\* ------------------------------------------------------------------------
\* The server scenario: the pretty format at several thresholds, loggers
\* derived by With from service and pid attributes, info calls with a port
\* ------------------------------------------------------------------------
MaxScenarioLines == 1

W_ServerStarted == <<83, 101, 114, 118, 101, 114, 32, 115, 116, 97, 114, 116, 101, 100>>  \* "Server started"
W_ServerReady == <<83, 101, 114, 118, 101, 114, 32, 114, 101, 97, 100, 121>>              \* "Server ready"

ScenarioInitArgs ==
    [level : {LevelDebug, LevelInfo, LevelWarn}, format : {"pretty"}, addSource : BOOLEAN]

ScenarioWith ==
    { <<Attr("service", 1), Attr("pid", 2)>>,
      <<Attr("pid", 2), Attr("service", 1), Attr("version", 3)>>,
      <<Attr("service", 1)>>,
      <<Attr("region", 4)>> }

ScenarioArgs ==
    { <<Attr("port", 8080)>>,
      <<Attr("port", 8080), Attr("pid", 2)>>,
      <<Attr("service", 1), Attr("port", 8080)>>,
      <<>> }

ScenarioMessages == {W_ServerStarted, W_ServerReady}

NextScenario ==
    \/ \E a \in ScenarioInitArgs : SeqInitGlobal(a)
    \/ \E attrs \in ScenarioWith : SeqWith(attrs)
    \/ \E msg \in ScenarioMessages, attrs \in ScenarioArgs :
           FreeLog(LevelInfo, msg, attrs, MaxScenarioLines)
    \/ \E msg \in ScenarioMessages, attrs \in ScenarioArgs :
           MethodLog(LevelInfo, msg, attrs, MaxScenarioLines)

SpecScenario == InitLog /\ [][NextScenario]_vars

\* ------------------------------------------------------------------------
\* C11
\* ------------------------------------------------------------------------
\* the keys With was given
WithKeys(h) == {h.with[i].key : i \in 1..Len(h.with)}

\* the latest call is the scenario's: Info("Server started", "port", 8080)
\* on a PrettyHandler logger that With gave service and pid, info enabled
ServerStartedCall ==
    /\ lastCall.op = "method"
    /\ lastCall.held.origin = "With"
    /\ {"service", "pid"} \subseteq WithKeys(lastCall.held)
    /\ LoggerKind(lastCall.held.logger) = "pretty"
    /\ LoggerLevel(lastCall.held.logger) <= LevelInfo
    /\ lastCall.level = LevelInfo
    /\ lastCall.msg = W_ServerStarted
    /\ \E i \in 1..Len(lastCall.args) : lastCall.args[i] = Attr("port", 8080)

\* what the scenario's line shows whatever its decoration: one line, with
\* port=8080 and neither service nor pid
ServerStartedFields ==
    /\ lastCall.handled
    /\ lastCall.wrote = 2
    /\ Attr("port", 8080) \in ShownAttrs(lastCall.line)
    /\ ShownKeys(lastCall.line) \cap {"service", "pid"} = {}

ThroughEmojiHandler ==
    /\ lastCall.op = "method" /\ lastCall.handled
    /\ lastCall.held.logger.handler.kind = "emoji"
    /\ lastCall.level \in NamedLevels

\* the message EmojiHandler.Handle of the latest call passed on
PassedMessage ==
    EmojiRewrite(NewRecord(lastCall.level, lastCall.msg, lastCall.callsite, lastCall.args)).msg

\* C12: whatever the message, the message an EmojiHandler passes to the
\* handler it wraps, and the line written, contain the emoji of the
\* record's level.
C12_LevelEmojiAlways ==
    ThroughEmojiHandler =>
        /\ stringContains(PassedMessage, getEmojiForLevel(lastCall.level))
        /\ stringContains(lastCall.line.text, getEmojiForLevel(lastCall.level))

\* ------------------------------------------------------------------------
\* Derivation with the slices as Go keeps them: PrettyHandler.attrs and
\* PrettyHandler.groups are slice headers over backing arrays, and
\* append(h.attrs, attrs...) writes into the receiver's array when it has
\* room
\* ------------------------------------------------------------------------
MaxDerived == 5

\* a slice header: arr is the backing array (0: none), len and cap as in Go
NilSlice == [arr |-> 0, len |-> 0, cap |-> 0]

\* s[0:len(s)]
SliceValue(arrays, s) == [i \in 1..s.len |-> arrays[s.arr][i]]

\* the capacity append gives a new backing array (runtime growslice below
\* 256 elements; rounding up to a size class leaves these sizes unchanged)
growcap(oldcap, needed) == IF needed > 2 * oldcap THEN needed ELSE 2 * oldcap

\* append(s, xs...): the arrays afterwards and the slice returned
append(arrays, s, xs, zero) ==
    LET n == s.len + Len(xs) IN
    IF xs = <<>> THEN [arrays |-> arrays, slice |-> s]
    ELSE IF n <= s.cap
    THEN [arrays |-> [arrays EXCEPT ![s.arr] =
                        [i \in 1..s.cap |-> IF i > s.len /\ i <= n THEN xs[i - s.len] ELSE @[i]]],
          slice |-> [s EXCEPT !.len = n]]
    ELSE LET c == growcap(s.cap, n) IN
         [arrays |-> Append(arrays,
                        [i \in 1..c |-> IF i <= s.len THEN arrays[s.arr][i]
                                        ELSE IF i <= n THEN xs[i - s.len] ELSE zero]),
          slice |-> [arr |-> Len(arrays) + 1, len |-> n, cap |-> c]]

\* &PrettyHandler{out: h.out, opts: h.opts, attrs: ..., groups: ...,
\* showEmoji: h.showEmoji}; path is a history field: the attributes and
\* groups of the derivations that led to this handler
DerivedHandler(h, attrs, groups, path) ==
    [kind |-> "pretty", opts |-> h.opts, mu |-> 0, out |-> h.out,
     attrs |-> attrs, groups |-> groups, showEmoji |-> h.showEmoji, path |-> path]

\* the handler at address a as Handle reads it: its slices' elements
Seen(a) ==
    [kind |-> "pretty", opts |-> hs[a].opts, mu |-> hs[a].mu, out |-> hs[a].out,
     attrs |-> SliceValue(heap.attrs, hs[a].attrs),
     groups |-> SliceValue(heap.groups, hs[a].groups),
     showEmoji |-> hs[a].showEmoji]

DerivedAttrs ==
    { <<Attr("port", 1)>>, <<Attr("user", 2)>>, <<Attr("port", 3), Attr("service", 1)>> }

DerivedGroups == {"db", "http"}

InitDerived ==
    /\ hs = <<DerivedHandler(NewPrettyHandler("stdout", NilOptions), NilSlice, NilSlice,
                             [attrs |-> <<>>, groups |-> <<>>])>>
    /\ hpc = <<>>
    /\ IdleHeap
    /\ IdleGlobal /\ IdleProcs /\ IdleLog /\ IdleEmoji

\* hs[a].WithAttrs(attrs)
PrettyWithAttrs(a, attrs) ==
    /\ Len(hs) < MaxDerived
    /\ LET r == append(heap.attrs, hs[a].attrs, attrs, Attr("", 0)) IN
       /\ heap' = [heap EXCEPT !.attrs = r.arrays]
       /\ hs' = Append(hs, DerivedHandler(hs[a], r.slice, hs[a].groups,
                                          [hs[a].path EXCEPT !.attrs = @ \o attrs]))
    /\ UNCHANGED <<hpc, gvars, pvars, lvars, evars>>

\* hs[a].WithGroup(name)
PrettyWithGroup(a, name) ==
    /\ Len(hs) < MaxDerived
    /\ LET r == append(heap.groups, hs[a].groups, <<name>>, "") IN
       /\ heap' = [heap EXCEPT !.groups = r.arrays]
       /\ hs' = Append(hs, DerivedHandler(hs[a], hs[a].attrs, r.slice,
                                          [hs[a].path EXCEPT !.groups = Append(@, name)]))
    /\ UNCHANGED <<hpc, gvars, pvars, lvars, evars>>

NextDerived ==
    \E a \in 1..Len(hs) :
        \/ \E attrs \in DerivedAttrs : PrettyWithAttrs(a, attrs)
        \/ \E name \in DerivedGroups : PrettyWithGroup(a, name)

SpecDerived == InitDerived /\ [][NextDerived]_vars

\* ------------------------------------------------------------------------
\* C13
\* ------------------------------------------------------------------------
\* C13: after any derivations, every PrettyHandler, receivers and earlier
\* siblings included, still has and renders exactly the attributes and
\* groups of its own derivation path.
C13_OwnPath ==
    \A a \in 1..Len(hs) :
        /\ Seen(a).attrs = hs[a].path.attrs
        /\ Seen(a).groups = hs[a].path.groups
        /\ formatAttrs(Seen(a), NewRecord(LevelInfo, W_db, "", <<>>)) = KeptAttrs(hs[a].path.attrs)

\* ------------------------------------------------------------------------
\* C14
\* ------------------------------------------------------------------------
\* C14: a Handle call whose Write failed returns that same error, called
\* Write exactly once, and on return does not hold the handler's lock.
C14_WriteErrorReturned ==
    \A t \in Writers :
        (hpc[t].at = "done" /\ hpc[t].werr # "nil")
            => /\ hpc[t].err = hpc[t].werr
               /\ hpc[t].writes = 1
               /\ (hs[hpc[t].h].kind = "pretty" => hs[hpc[t].h].mu # t)

\* a Handle call on the PrettyHandler has returned the sink's error and
\* another goroutine has since taken the handler's lock
C14_Witness ==
    \E t, u \in Writers :
        /\ t # u
        /\ hpc[t].at = "done" /\ hpc[t].h = PrettyAddr /\ hpc[t].err = "EIO"
        /\ hpc[u].h = PrettyAddr /\ hpc[u].at \in InSection /\ hs[PrettyAddr].mu = u

\* ------------------------------------------------------------------------
\* C15
\* ------------------------------------------------------------------------
\* the record a handled free-function call built
FreeRecord == NewRecord(lastCall.level, lastCall.msg, "caller", lastCall.args)

\* C15: a handled call of a free function captured the frame of the
\* function that called it, not runtime.Callers, logWithCaller or the free
\* function itself; the level had passed Enabled, and the line written is
\* what Handle of the singleton's handler renders for that record.
C15_CallSiteIsCaller ==
    (lastCall.op = "free" /\ lastCall.handled)
        => /\ lastCall.callsite = "caller"
           /\ LET s == FreeStack(lastCall.level) IN
                 /\ s[2] = "logWithCaller" /\ s[3] = FreeFunction(lastCall.level)
                 /\ lastCall.callsite = s[4]
           /\ lastCall.callsite \notin {"runtime.Callers", "logWithCaller", FreeFunction(lastCall.level)}
           /\ lastCall.held.logger = globalLogger
           /\ Enabled(globalLogger.handler, lastCall.level)
           /\ lastCall.line = HandleLine(globalLogger.handler, FreeRecord)

\* Debug("db") with call-site resolution on and threshold debug was
\* handled, and the line's source segment is the caller's frame
C15_Witness ==
    /\ lastCall.op = "free" /\ lastCall.handled
    /\ lastCall.level = LevelDebug
    /\ LoggerAddSource(globalLogger)
    /\ lastCall.line.source = "caller"
    /\ sink["stdout"] # <<>>

\* ------------------------------------------------------------------------
\* Handle on a PrettyHandler and on the handlers derived from it, which
\* write to the sink of the handler they were derived from
\* ------------------------------------------------------------------------
MaxShared == 2

InitShared ==
    /\ hs = <<NewPrettyHandler("buf", NilOptions)>>
    /\ hpc = [t \in Writers |-> IdleHandleFrame]
    /\ IdleLog
    /\ IdleGlobal /\ IdleProcs /\ IdleEmoji /\ IdleHeap

\* hs[a].WithAttrs(attrs), as With(args...) calls it on the global handler
ShareWithAttrs(a, attrs) ==
    /\ Len(hs) < MaxShared
    /\ hs' = Append(hs, WithAttrs(hs[a], attrs))
    /\ UNCHANGED <<hpc, gvars, pvars, lvars, evars, dvars>>

\* hs[a].WithGroup(name), as WithGroup(name) calls it on the global handler
ShareWithGroup(a, name) ==
    /\ Len(hs) < MaxShared
    /\ hs' = Append(hs, WithGroup(hs[a], name))
    /\ UNCHANGED <<hpc, gvars, pvars, lvars, evars, dvars>>

NextShared ==
    \/ \E a \in 1..Len(hs) : ShareWithAttrs(a, <<Attr("port", 1)>>)
    \/ \E a \in 1..Len(hs) : ShareWithGroup(a, "db")
    \/ \E t \in Writers :
        \/ \E a \in 1..Len(hs), level \in HandleLevels : HandleCall(t, a, level)
        \/ PrettyLock(t)
        \/ WriteFirst(t)
        \/ WriteRest(t)
        \/ PrettyUnlock(t)

SpecShared == InitShared /\ [][NextShared]_vars

\* ------------------------------------------------------------------------
\* C16
\* ------------------------------------------------------------------------
\* C16: Handle calls on a PrettyHandler and on handlers derived from it are
\* never both between the start of rendering and the return while their
\* handlers write to the same sink, and every sink holds whole lines only.
C16_SharedSinkExclusive ==
    /\ \A t, u \in Writers :
          (t # u /\ hpc[t].at \in InSection /\ hpc[u].at \in InSection)
              => hs[hpc[t].h].out # hs[hpc[u].h].out
    /\ \A o \in Outs : WholeLines(sink[o])
=============================================================================
